---- MODULE Spec2Model ----
(***************************************************************************)
(* Model of @xscale/hash: the scrypt and bcrypt drivers (make, verify,     *)
(* needsReHash, isValidHash, configuration validation), the bcrypt base64  *)
(* codec and the helpers they use.                                         *)
(*                                                                         *)
(* Strings that reach the bcrypt codec and the bcrypt primitive are        *)
(* sequences of code points.  Byte buffers are sequences of 0..255.        *)
(* A stored hash string is kept split on its "$" delimiter: a sequence of  *)
(* segments, see the PHC section.                                          *)
(***************************************************************************)
EXTENDS Integers, Sequences, FiniteSets, TLC

VARIABLES driver, stored, last, buff, encoded, decoded, calls

vars == <<driver, stored, last, buff, encoded, decoded, calls>>

driverVars == <<driver, stored, last>>

codecVars == <<buff, encoded, decoded>>

(***************************************************************************)
(* Bounds of the model.                                                    *)
(***************************************************************************)
\* plaintexts are 1..MaxPlain
MaxPlain == 2

\* outcomes of the random source: salts are SaltBytes(seed, size), seed in 1..MaxSeed
MaxSeed == 1

\* the codec is run on every byte sequence over ByteVals of length 1..MaxLen
MaxLen == 4

\* decode is run on every string over TextSymbols of length 0..MaxText
MaxText == 4

\* the callers that use one driver at the same time are 1..MaxCallers
MaxCallers == 2

\* safeEqual is run on every pair of strings over CharVals of length 0..MaxStr
MaxStr == 3

(***************************************************************************)
(* Results of a call: a returned value or a thrown error.                  *)
(***************************************************************************)
Ret(v) == [t |-> "ret", v |-> v]

Throw(e) == [t |-> "throw", v |-> e]

Undefined == [ty |-> "undefined", v |-> 0]

\* a JavaScript number that is an integer
Num(n) == [ty |-> "int", v |-> n]

\* a JavaScript number that is not an integer (v + 0.5)
Frac(n) == [ty |-> "float", v |-> n]

(***************************************************************************)
(* helpers.ts                                                              *)
(***************************************************************************)
\* 2 ** 32 - 1 in the source.  TLC's integers end at 2^31 - 1, so for every
\* integer v the model can hold, v <= maxUint32 holds here as in the source.
maxUint32 == 2147483647

\* Math.floor(((2 ** 32 - 1) * 32) / 128) = floor((2^32 - 1) / 4)
maxUint32Times32Div128 == 1073741823

\* rangeValidator: TRUE when it returns, FALSE when it throws TypeError
rangeValidator(value, min, max) ==
  IF value.ty # "int" THEN FALSE
  ELSE ~(value.v < min \/ value.v > max)

\* enumValidator: TRUE when it returns, FALSE when it throws TypeError
enumValidator(value, allowedValues) ==
  value \in allowedValues

\* timingSafeEqual of node:crypto on two buffers
timingSafeEqual(a, b) ==
  IF Len(a) # Len(b) THEN Throw("RangeError")
  ELSE Ret(a = b)

\* safeEqual comparing the lengths only
safeEqualBytesLengthOnly(trustedValue, userInput) ==
  IF Len(trustedValue) # Len(userInput) THEN Throw("RangeError") ELSE Ret(TRUE)

\* safeEqual, the branch taken for two byte buffers
safeEqualBytes(trustedValue, userInput) ==
  timingSafeEqual(trustedValue, userInput)

\* the UTF-8 bytes of one code point below 65536
utf8Char(cp) ==
  IF cp < 128 THEN <<cp>>
  ELSE IF cp < 2048 THEN <<192 + (cp \div 64), 128 + (cp % 64)>>
  ELSE <<224 + (cp \div 4096), 128 + ((cp \div 64) % 64), 128 + (cp % 64)>>

\* the UTF-8 bytes of a string
RECURSIVE utf8(_)
utf8(string) ==
  IF Len(string) = 0 THEN <<>>
  ELSE utf8Char(string[1]) \o utf8(Tail(string))

\* Buffer.byteLength(string)
byteLength(string) == Len(utf8(string))

\* Buffer.alloc(size, 0, 'utf8') followed by write(string): the characters that
\* fit are written whole, the rest of the buffer stays zero
allocWrite(size, string) ==
  LET fit == CHOOSE n \in 0..Len(string) :
               /\ byteLength(SubSeq(string, 1, n)) <= size
               /\ n < Len(string) => byteLength(SubSeq(string, 1, n + 1)) > size
      written == utf8(SubSeq(string, 1, fit))
  IN [i \in 1..size |-> IF i <= Len(written) THEN written[i] ELSE 0]

\* the comparison of the two buffers without that of the lengths
safeEqualStringsNoLength(trustedValue, userInput) ==
  timingSafeEqual(allocWrite(byteLength(trustedValue), trustedValue),
                  allocWrite(byteLength(trustedValue), userInput))

\* the two buffers safeEqual passes to timingSafeEqual for two strings
stringBuffers(trustedValue, userInput) ==
  <<allocWrite(byteLength(trustedValue), trustedValue),
    allocWrite(byteLength(trustedValue), userInput)>>

\* safeEqual, the branch taken for two strings
safeEqualStrings(trustedValue, userInput) ==
  LET equal == timingSafeEqual(stringBuffers(trustedValue, userInput)[1],
                               stringBuffers(trustedValue, userInput)[2])
  IN IF equal.t = "throw" THEN equal
     ELSE Ret(equal.v /\ byteLength(trustedValue) = byteLength(userInput))

(***************************************************************************)
(* bcrypt-base64.ts                                                        *)
(***************************************************************************)
\* './ABCDEFGHIJKLMNOPQRSTUVWXYZabcdefghijklmnopqrstuvwxyz0123456789'
base64Code ==
  <<46, 47>> \o [i \in 1..26 |-> 64 + i] \o [i \in 1..26 |-> 96 + i]
    \o [i \in 1..10 |-> 47 + i]

base64Index == <<
  -1, -1, -1, -1, -1, -1, -1, -1, -1, -1, -1, -1, -1, -1, -1, -1, -1, -1, -1, -1, -1, -1, -1, -1,
  -1, -1, -1, -1, -1, -1, -1, -1, -1, -1, -1, -1, -1, -1, -1, -1, -1, -1, -1, -1, -1, -1, 0, 1, 54,
  55, 56, 57, 58, 59, 60, 61, 62, 63, -1, -1, -1, -1, -1, -1, -1, 2, 3, 4, 5, 6, 7, 8, 9, 10, 11,
  12, 13, 14, 15, 16, 17, 18, 19, 20, 21, 22, 23, 24, 25, 26, 27, -1, -1, -1, -1, -1, -1, 28, 29,
  30, 31, 32, 33, 34, 35, 36, 37, 38, 39, 40, 41, 42, 43, 44, 45, 46, 47, 48, 49, 50, 51, 52, 53,
  -1, -1, -1, -1, -1 >>

\* base64Code[i] for a 0-based i
codeAt(i) == base64Code[i + 1]

\* code < base64Index.length ? base64Index[code] : -1
indexOf(code) == IF code < Len(base64Index) THEN base64Index[code + 1] ELSE -1

\* the while loop of encode: off is 0-based, chars is what is pushed so far
RECURSIVE encodeLoop(_, _, _)
encodeLoop(b, off, chars) ==
  LET length == Len(b) IN
  IF ~(off < length) THEN chars
  ELSE
    LET c1  == b[off + 1] % 256
        ch1 == codeAt((c1 \div 4) % 64)
        c1a == (c1 % 4) * 16
    IN
    IF off + 1 >= length THEN chars \o <<ch1, codeAt(c1a % 64)>>
    ELSE
      LET c2  == b[off + 2] % 256
          c1b == c1a + ((c2 \div 16) % 16)
          ch2 == codeAt(c1b % 64)
          c1c == (c2 % 16) * 4
      IN
      IF off + 2 >= length THEN chars \o <<ch1, ch2, codeAt(c1c % 64)>>
      ELSE
        LET c3  == b[off + 3] % 256
            c1d == c1c + ((c3 \div 64) % 4)
        IN encodeLoop(b, off + 3,
                      chars \o <<ch1, ch2, codeAt(c1d % 64), codeAt(c3 % 64)>>)

encode(b) == encodeLoop(b, 0, <<>>)

\* the while loop of decode: off is 0-based, chars holds the code points
\* pushed so far (olen = Len(chars)); String.fromCodePoint(-1) throws
RECURSIVE decodeLoop(_, _, _)
decodeLoop(string, off, chars) ==
  LET stringLength == Len(string)
      length       == Len(string)
      olen         == Len(chars)
  IN
  IF ~(off < stringLength - 1 /\ olen < length) THEN Ret(chars)
  ELSE
    LET code1 == string[off + 1]
        code2 == string[off + 2]
        c1    == indexOf(code1)
        c2    == indexOf(code2)
    IN
    IF code1 = 0 \/ code2 = 0 THEN Ret(chars)
    ELSE IF c1 = -1 \/ c2 = -1 THEN Ret(chars)
    ELSE
      LET o1     == (c1 * 4) + ((c2 \div 16) % 4)
          chars1 == Append(chars, o1)
      IN
      IF olen + 1 >= length \/ off + 2 >= stringLength THEN Ret(chars1)
      ELSE
        LET code3 == string[off + 3]
            c3    == indexOf(code3)
        IN
        IF code3 = 0 \/ c3 = -1 THEN Ret(chars1)
        ELSE
          LET o2     == ((c2 % 16) * 16) + ((c3 \div 4) % 16)
              chars2 == Append(chars1, o2)
          IN
          IF olen + 2 >= length \/ off + 3 >= stringLength THEN Ret(chars2)
          ELSE
            LET code4 == string[off + 4]
                c4    == indexOf(code4)
            IN
            IF code4 = 0 THEN Ret(chars2)
            ELSE IF c4 = -1 THEN Throw("RangeError")
            ELSE decodeLoop(string, off + 4,
                            Append(chars2, ((c3 % 4) * 64) + c4))

\* decode keeping seven bits of each byte
decodeSevenBits(string) ==
  LET r == decodeLoop(string, 0, <<>>) IN
  IF r.t = "throw" THEN r
  ELSE Ret([i \in 1..Len(r.v) |-> r.v[i] % 128])

\* decode of a string: Buffer.from of the code points pushed by the loop
decode(string) ==
  LET r == decodeLoop(string, 0, <<>>) IN
  IF r.t = "throw" THEN r
  ELSE Ret([i \in 1..Len(r.v) |-> r.v[i] % 256])

\* decode of a JavaScript value: reading .length of undefined throws
decodeValue(x) ==
  IF x.ty = "undefined" THEN Throw("TypeError") ELSE decode(x.s)

(***************************************************************************)
(* Text helpers: decimal numerals, String.prototype.split/startsWith.      *)
(***************************************************************************)
\* `${n}` for a non-negative integer n
RECURSIVE FormatInt(_)
FormatInt(n) ==
  IF n < 10 THEN <<48 + n>> ELSE Append(FormatInt(n \div 10), 48 + (n % 10))

IsDigits(cs) == Len(cs) > 0 /\ \A i \in 1..Len(cs) : cs[i] \in 48..57

\* a decimal numeral: digits only, no leading zero beyond the literal "0"
IsDecimal(cs) == IsDigits(cs) /\ (Len(cs) > 1 => cs[1] # 48)

\* the value of the first k digits of a numeral
RECURSIVE ParseDigits(_, _)
ParseDigits(cs, k) ==
  IF k = 0 THEN 0 ELSE (ParseDigits(cs, k - 1) * 10) + (cs[k] - 48)

ParseInt(cs) == ParseDigits(cs, Len(cs))

\* s.startsWith(prefix)
startsWith(s, prefix) ==
  Len(s) >= Len(prefix) /\ SubSeq(s, 1, Len(prefix)) = prefix

\* 1-based position of the first occurrence of sep in s at or after from, or 0
RECURSIVE indexOfFrom(_, _, _)
indexOfFrom(s, sep, from) ==
  IF from + Len(sep) - 1 > Len(s) THEN 0
  ELSE IF SubSeq(s, from, from + Len(sep) - 1) = sep THEN from
  ELSE indexOfFrom(s, sep, from + 1)

\* s.split(sep)[1] for a non-empty sep
splitSecond(s, sep) ==
  LET i == indexOfFrom(s, sep, 1) IN
  IF i = 0 THEN Undefined
  ELSE LET start == i + Len(sep)
           j     == indexOfFrom(s, sep, start)
       IN [ty |-> "string",
           s  |-> SubSeq(s, start, IF j = 0 THEN Len(s) ELSE j - 1)]

(***************************************************************************)
(* PHC codec (@xscale/phc-formatter).                                      *)
(*                                                                         *)
(* A string with a leading "$" is [k |-> "phc", segs |-> ...], the         *)
(* segments between the delimiters in order; any other string is           *)
(* [k |-> "text", cs |-> its code points].  A segment is one of            *)
(*   [seg |-> "plain",   cs  |-> code points]         no "=" in it         *)
(*   [seg |-> "version", val |-> code points]         "v=" val             *)
(*   [seg |-> "params",  kv  |-> <<<<key, val>>, ..>>] key "=" val "," ..  *)
(***************************************************************************)
Plain(cs) == [seg |-> "plain", cs |-> cs]

VersionSeg(val) == [seg |-> "version", val |-> val]

ParamsSeg(kv) == [seg |-> "params", kv |-> kv]

PhcString(segs) == [k |-> "phc", segs |-> segs]

TextString(cs) == [k |-> "text", cs |-> cs]

Buffer(b) == [ty |-> "buffer", b |-> b]

\* 'scrypt'
IdScrypt == <<115, 99, 114, 121, 112, 116>>

\* 'bcrypt'
IdBcrypt == <<98, 99, 114, 121, 112, 116>>

\* 'argon2id'
IdArgon == <<97, 114, 103, 111, 110, 50, 105, 100>>

\* 'ABCDEFGHIJKLMNOPQRSTUVWXYZabcdefghijklmnopqrstuvwxyz0123456789+/'
phcAlphabet ==
  [i \in 1..26 |-> 64 + i] \o [i \in 1..26 |-> 96 + i]
    \o [i \in 1..10 |-> 47 + i] \o <<43, 47>>

\* the 6-bit value of a symbol of the alphabet, -1 for any other code
phcValue(code) ==
  IF code \in 65..90 THEN code - 65
  ELSE IF code \in 97..122 THEN code - 71
  ELSE IF code \in 48..57 THEN code + 4
  ELSE IF code = 43 THEN 62
  ELSE IF code = 47 THEN 63
  ELSE -1

\* unpadded base64 of a byte sequence: symbol k carries six bits of group
\* (k - 1) \div 4, the last group filled with zero bits
phcB64Encode(b) ==
  LET byte(i) == IF i <= Len(b) THEN b[i] ELSE 0
      sym(k)  ==
        LET g  == (k - 1) \div 4
            j  == (k - 1) % 4
            b1 == byte((3 * g) + 1)
            b2 == byte((3 * g) + 2)
            b3 == byte((3 * g) + 3)
        IN IF j = 0 THEN b1 \div 4
           ELSE IF j = 1 THEN ((b1 % 4) * 16) + (b2 \div 16)
           ELSE IF j = 2 THEN ((b2 % 16) * 4) + (b3 \div 64)
           ELSE b3 % 64
  IN [k \in 1..(((4 * Len(b)) + 2) \div 3) |-> phcAlphabet[sym(k) + 1]]

IsPhcB64(cs) ==
  /\ \A i \in 1..Len(cs) : phcValue(cs[i]) # -1
  /\ Len(cs) % 4 # 1

\* the bytes of a valid unpadded base64 string
phcB64Decode(cs) ==
  LET val(i)  == IF i <= Len(cs) THEN phcValue(cs[i]) ELSE 0
      byte(j) ==
        LET g  == (j - 1) \div 3
            r  == (j - 1) % 3
            v1 == val((4 * g) + 1)
            v2 == val((4 * g) + 2)
            v3 == val((4 * g) + 3)
            v4 == val((4 * g) + 4)
        IN IF r = 0 THEN (v1 * 4) + (v2 \div 16)
           ELSE IF r = 1 THEN ((v2 % 16) * 16) + (v3 \div 4)
           ELSE ((v3 % 4) * 64) + v4
  IN [j \in 1..((3 * Len(cs)) \div 4) |-> byte(j)]

\* an algorithm id: 1..32 characters of a-z, 0-9 and "-"
IsIdent(cs) ==
  /\ Len(cs) \in 1..32
  /\ \A i \in 1..Len(cs) : cs[i] \in (97..122) \cup (48..57) \cup {45}

\* the parameters object of a "params" segment whose values are numerals
ParamsObject(kv) ==
  [ty |-> "object",
   kv |-> [key \in {kv[i][1] : i \in 1..Len(kv)} |->
             ParseInt((CHOOSE e \in {kv[i] : i \in 1..Len(kv)} : e[1] = key)[2])]]

\* serialize({id, version?, parameters, salt, hash})
serialize(id, version, parameters, salt, hash) ==
  PhcString(
    <<Plain(id)>>
    \o (IF version.ty = "undefined" THEN <<>>
        ELSE <<VersionSeg(FormatInt(version.v))>>)
    \o <<ParamsSeg([i \in 1..Len(parameters) |->
                      <<parameters[i][1], FormatInt(parameters[i][2])>>])>>
    \o <<Plain(phcB64Encode(salt)), Plain(phcB64Encode(hash))>>)

\* deserialize: Ret(record) or Throw("DecodingError")
deserialize(str) ==
  IF str.k # "phc" THEN Throw("DecodingError")
  ELSE IF Len(str.segs) = 0 THEN Throw("DecodingError")
  ELSE IF str.segs[1].seg # "plain" THEN Throw("DecodingError")
  ELSE IF ~IsIdent(str.segs[1].cs) THEN Throw("DecodingError")
  ELSE
    LET afterId  == Tail(str.segs)
        hasVer   == Len(afterId) > 0 /\ afterId[1].seg = "version"
        afterVer == IF hasVer THEN Tail(afterId) ELSE afterId
        hasPar   == Len(afterVer) > 0 /\ afterVer[1].seg = "params"
        rest     == IF hasPar THEN Tail(afterVer) ELSE afterVer
        kv       == afterVer[1].kv
    IN
    IF hasVer /\ ~IsDecimal(afterId[1].val) THEN Throw("DecodingError")
    ELSE IF hasPar /\ ~(\A i \in 1..Len(kv) : IsDecimal(kv[i][2]))
      THEN Throw("DecodingError")
    ELSE IF hasPar /\ Cardinality({kv[i][1] : i \in 1..Len(kv)}) # Len(kv)
      THEN Throw("DecodingError")
    ELSE IF Len(rest) # 2 THEN Throw("DecodingError")
    ELSE IF ~(\A i \in 1..2 : rest[i].seg = "plain" /\ IsPhcB64(rest[i].cs))
      THEN Throw("DecodingError")
    ELSE Ret([id         |-> str.segs[1].cs,
              version    |-> IF hasVer THEN Num(ParseInt(afterId[1].val))
                             ELSE Undefined,
              parameters |-> IF hasPar THEN ParamsObject(kv) ELSE Undefined,
              salt       |-> Buffer(phcB64Decode(rest[1].cs)),
              hash       |-> Buffer(phcB64Decode(rest[2].cs))])

\* phcNode.parameters.<key>: undefined when the key is absent
param(parameters, key) ==
  IF key \in DOMAIN parameters.kv THEN Num(parameters.kv[key]) ELSE Undefined

(***************************************************************************)
(* External primitives.                                                    *)
(***************************************************************************)
\* a byte sequence cut or zero-filled to n bytes
PadTo(b, n) == [i \in 1..n |-> IF i <= Len(b) THEN b[i] ELSE 0]

\* the four bytes of a non-negative integer below 2^31
Bytes4(n) ==
  <<(n \div 16777216) % 256, (n \div 65536) % 256, (n \div 256) % 256, n % 256>>

\* randomBytes(size): the bytes the random source returns on outcome seed
SaltBytes(seed, size) == [i \in 1..size |-> ((seed * 83) + (i * 7)) % 256]

\* node:crypto scrypt.  It fails when the memory bound is not above
\* 128 * N * r and when the environment fails; otherwise its keylen bytes are
\* a function of its inputs that is injective on the inputs of the model.
scryptAsync(value, salt, keylen, cost, blockSize, parallelization, maxmem, fails) ==
  IF fails THEN Throw("PrimitiveError")
  ELSE IF maxmem <= 128 * cost * blockSize THEN Throw("PrimitiveError")
  ELSE Ret(PadTo(<<value>> \o Bytes4(cost) \o Bytes4(blockSize)
                   \o Bytes4(parallelization) \o <<Len(salt) % 256>> \o salt,
                 keylen))

\* bcrypt's hash(data, salt): the salt string it was given followed by the
\* 31 symbols of its 23 digest bytes, a function of data and salt string
bcryptHash(value, bcryptSalt, fails) ==
  IF fails THEN Throw("PrimitiveError")
  ELSE Ret(bcryptSalt
           \o encode(PadTo(<<value, Len(bcryptSalt) % 256>>
                             \o SubSeq(bcryptSalt, 3, Len(bcryptSalt)), 23)))

\* bcrypt's compare(data, hash) on a string in the primitive's own format:
\* the hash of data under the salt the string starts with is the string
bcryptCompare(value, chars, fails) ==
  IF fails THEN Throw("PrimitiveError")
  ELSE IF Len(chars) < 29 THEN Ret(FALSE)
  ELSE Ret(bcryptHash(value, SubSeq(chars, 1, 29), FALSE).v = chars)

(***************************************************************************)
(* Configuration: { ...defaults, ...config }                               *)
(***************************************************************************)
EmptyConfig == [f \in {} |-> Undefined]

Merge(defaults, config) ==
  [f \in DOMAIN defaults |-> IF f \in DOMAIN config THEN config[f] ELSE defaults[f]]

(***************************************************************************)
(* driver/scrypt.ts                                                        *)
(***************************************************************************)
ScryptDefaults ==
  [cost |-> Num(16384), blockSize |-> Num(8), parallelization |-> Num(1),
   saltSize |-> Num(16), keyLength |-> Num(64),
   maxMemory |-> Num(32 * 1024 * 1024)]

\* #validateConfig: TRUE when it returns, FALSE when a validator throws
ScryptValidateConfig(config) ==
  /\ rangeValidator(config.blockSize, 1, maxUint32)
  /\ rangeValidator(config.cost, 2, maxUint32)
  /\ rangeValidator(config.parallelization, 1,
                    maxUint32Times32Div128 \div config.blockSize.v)
  /\ rangeValidator(config.saltSize, 8, 1024)
  /\ rangeValidator(config.keyLength, 64, 128)
  /\ rangeValidator(config.maxMemory,
                    (128 * config.cost.v * config.blockSize.v) + 1, maxUint32)

\* #validatePhcString after its first line: d is what deserialize gave,
\* the result is Ret(node) or the error thrown
ScryptValidatePhcNode(d) ==
  LET phcNode == d.v IN
  IF d.t = "throw" THEN d
  ELSE IF phcNode.id # IdScrypt THEN Throw("TypeError")
  ELSE IF phcNode.parameters.ty = "undefined" THEN Throw("TypeError")
  ELSE IF phcNode.salt.ty = "undefined" THEN Throw("TypeError")
  ELSE IF phcNode.hash.ty = "undefined" THEN Throw("TypeError")
  ELSE IF ~rangeValidator(Num(Len(phcNode.hash.b)), 64, 128) THEN Throw("TypeError")
  ELSE IF ~rangeValidator(Num(Len(phcNode.salt.b)), 8, 1024) THEN Throw("TypeError")
  ELSE IF ~rangeValidator(param(phcNode.parameters, "r"), 1, maxUint32)
    THEN Throw("TypeError")
  ELSE IF ~rangeValidator(param(phcNode.parameters, "n"), 1, maxUint32)
    THEN Throw("TypeError")
  ELSE IF ~rangeValidator(param(phcNode.parameters, "p"), 1,
                          maxUint32Times32Div128 \div param(phcNode.parameters, "r").v)
    THEN Throw("TypeError")
  ELSE Ret([id         |-> phcNode.id,
            hash       |-> phcNode.hash.b,
            salt       |-> phcNode.salt.b,
            parameters |-> [r |-> param(phcNode.parameters, "r").v,
                            n |-> param(phcNode.parameters, "n").v,
                            p |-> param(phcNode.parameters, "p").v]])

ScryptValidatePhcString(phcString) ==
  ScryptValidatePhcNode(deserialize(phcString))

\* isValidHash with the two results exchanged
ScryptIsValidHashInverted(config, value) ==
  IF ScryptValidatePhcString(value).t = "throw" THEN Ret(TRUE) ELSE Ret(FALSE)

ScryptIsValidHash(config, value) ==
  IF ScryptValidatePhcString(value).t = "throw" THEN Ret(FALSE) ELSE Ret(TRUE)

\* make writing the block size under "n" and the cost under "r"
ScryptMakeSwapped(config, value, seed, fails) ==
  LET salt == SaltBytes(seed, config.saltSize.v)
      hash == scryptAsync(value, salt, config.keyLength.v, config.cost.v,
                          config.blockSize.v, config.parallelization.v,
                          config.maxMemory.v, fails)
  IN
  IF hash.t = "throw" THEN hash
  ELSE Ret(serialize(IdScrypt, Undefined,
                     <<<<"n", config.blockSize.v>>, <<"r", config.cost.v>>,
                       <<"p", config.parallelization.v>>>>,
                     salt, hash.v))

\* make: seed is the outcome of randomBytesAsync, fails that of the primitive
ScryptMake(config, value, seed, fails) ==
  LET salt == SaltBytes(seed, config.saltSize.v)
      hash == scryptAsync(value, salt, config.keyLength.v, config.cost.v,
                          config.blockSize.v, config.parallelization.v,
                          config.maxMemory.v, fails)
  IN
  IF hash.t = "throw" THEN hash
  ELSE Ret(serialize(IdScrypt, Undefined,
                     <<<<"n", config.cost.v>>, <<"r", config.blockSize.v>>,
                       <<"p", config.parallelization.v>>>>,
                     salt, hash.v))

\* the end of verify's try block: compare the new hash, any error gives false
compareOrFalse(newHash, hash) ==
  IF newHash.t = "throw" THEN Ret(FALSE)
  ELSE IF safeEqualBytes(newHash.v, hash).t = "throw" THEN Ret(FALSE)
  ELSE safeEqualBytes(newHash.v, hash)

\* the call of safeEqual that ends the try block: what it returns or throws,
\* NotRun when an error before it left the block
comparison(newHash, hash) ==
  IF newHash.t = "throw" THEN [t |-> "none", v |-> <<>>]
  ELSE safeEqualBytes(newHash.v, hash)

\* verify: the hash derived again from the values in the string
ScryptDerive(config, phcNode, plainValue, fails) ==
  scryptAsync(plainValue, phcNode.salt, Len(phcNode.hash),
              phcNode.parameters.n, phcNode.parameters.r,
              phcNode.parameters.p, config.maxMemory.v, fails)

\* verify after #validatePhcString: v is what it gave
ScryptVerifyNode(config, v, plainValue, fails) ==
  IF v.t = "throw" THEN Ret(FALSE)
  ELSE compareOrFalse(ScryptDerive(config, v.v, plainValue, fails), v.v.hash)

\* the call of safeEqual in verify
ScryptVerifyComparison(config, v, plainValue, fails) ==
  IF v.t = "throw" THEN [t |-> "none", v |-> <<>>]
  ELSE comparison(ScryptDerive(config, v.v, plainValue, fails), v.v.hash)

ScryptVerify(config, hashedValue, plainValue, fails) ==
  ScryptVerifyNode(config, ScryptValidatePhcString(hashedValue), plainValue, fails)

\* needsReHash without the comparison of "p"
ScryptNeedsReHashNodeNoP(config, d) ==
  LET phcNode == d.v IN
  IF d.t = "throw" THEN d
  ELSE IF phcNode.id # IdScrypt THEN Ret(TRUE)
  ELSE IF phcNode.parameters.ty = "undefined" THEN Ret(TRUE)
  ELSE IF param(phcNode.parameters, "n") # config.cost THEN Ret(TRUE)
  ELSE IF param(phcNode.parameters, "r") # config.blockSize THEN Ret(TRUE)
  ELSE Ret(FALSE)

\* needsReHash after its first line: d is what deserialize gave
ScryptNeedsReHashNode(config, d) ==
  LET phcNode == d.v IN
  IF d.t = "throw" THEN d
  ELSE IF phcNode.id # IdScrypt THEN Ret(TRUE)
  ELSE IF phcNode.parameters.ty = "undefined" THEN Ret(TRUE)
  ELSE IF param(phcNode.parameters, "n") # config.cost THEN Ret(TRUE)
  ELSE IF param(phcNode.parameters, "r") # config.blockSize THEN Ret(TRUE)
  ELSE IF param(phcNode.parameters, "p") # config.parallelization THEN Ret(TRUE)
  ELSE Ret(FALSE)

ScryptNeedsReHash(config, value) ==
  ScryptNeedsReHashNode(config, deserialize(value))

(***************************************************************************)
(* driver/bcrypt.ts                                                        *)
(***************************************************************************)
BcryptDefaults ==
  [rounds |-> Num(10), saltSize |-> Num(16), version |-> Num(98)]

\* [0x61, 0x62]
BcryptVersions == {Num(97), Num(98)}

BcryptValidateConfig(config) ==
  /\ rangeValidator(config.rounds, 4, 31)
  /\ rangeValidator(config.saltSize, 8, 1024)
  /\ enumValidator(config.version, BcryptVersions)

\* #generateBcryptSalt: `$2${version char}$${paddedRounds}$${encode(salt)}`
generateBcryptSalt(salt, version, rounds) ==
  LET paddedRounds == IF rounds > 9 THEN FormatInt(rounds)
                      ELSE <<48>> \o FormatInt(rounds)
  IN <<36, 50, version, 36>> \o paddedRounds \o <<36>> \o encode(salt)

\* the test for a string in the primitive's own format without '$2a'
IsLegacyOnly2b(value) ==
  /\ value.k = "phc"
  /\ Len(value.segs) > 0
  /\ value.segs[1].seg = "plain"
  /\ startsWith(value.segs[1].cs, <<50, 98>>)

\* value.startsWith('$2b') || value.startsWith('$2a')
IsLegacy(value) ==
  /\ value.k = "phc"
  /\ Len(value.segs) > 0
  /\ value.segs[1].seg = "plain"
  /\ \/ startsWith(value.segs[1].cs, <<50, 98>>)
     \/ startsWith(value.segs[1].cs, <<50, 97>>)

\* the code points of a string all of whose segments are plain
RECURSIVE JoinPlain(_)
JoinPlain(segs) ==
  IF Len(segs) = 0 THEN <<>>
  ELSE <<36>> \o segs[1].cs \o JoinPlain(Tail(segs))

\* #validatePhcString after its first line: d is what deserialize gave,
\* the result is Ret(node) or the error thrown
BcryptValidatePhcNode(d) ==
  LET phcNode == d.v
      version == IF phcNode.version.ty = "undefined" \/ phcNode.version.v = 0
                 THEN Num(97) ELSE phcNode.version
  IN
  IF d.t = "throw" THEN d
  ELSE IF phcNode.id # IdBcrypt THEN Throw("TypeError")
  ELSE IF phcNode.parameters.ty = "undefined" THEN Throw("TypeError")
  ELSE IF phcNode.salt.ty = "undefined" THEN Throw("TypeError")
  ELSE IF phcNode.hash.ty = "undefined" THEN Throw("TypeError")
  ELSE IF Len(phcNode.hash.b) = 0 THEN Throw("TypeError")
  ELSE IF ~rangeValidator(Num(Len(phcNode.salt.b)), 8, 1024) THEN Throw("TypeError")
  ELSE IF ~enumValidator(version, BcryptVersions) THEN Throw("TypeError")
  ELSE IF ~rangeValidator(param(phcNode.parameters, "r"), 4, 31)
    THEN Throw("TypeError")
  ELSE Ret([id         |-> phcNode.id,
            version    |-> version.v,
            hash       |-> phcNode.hash.b,
            salt       |-> phcNode.salt.b,
            parameters |-> [r |-> param(phcNode.parameters, "r").v]])

BcryptValidatePhcString(phcString) ==
  BcryptValidatePhcNode(deserialize(phcString))

BcryptIsValidHash(config, value) ==
  IF BcryptValidatePhcString(value).t = "throw" THEN Ret(FALSE) ELSE Ret(TRUE)

\* BcryptBase64.decode(bcryptHash.split(bcryptSalt)[1]); hashed is what the
\* primitive gave, an error of the primitive is passed on
hashBytes(hashed, bcryptSalt) ==
  IF hashed.t = "throw" THEN hashed
  ELSE decodeValue(splitSecond(hashed.v, bcryptSalt))

\* make from the salts on: hash is the decoded digest or the error thrown
BcryptMakeWith(config, salt, hash) ==
  IF hash.t = "throw" THEN hash
  ELSE Ret(serialize(IdBcrypt, config.version,
                     <<<<"r", config.rounds.v>>>>, salt, hash.v))

\* the digest bytes of value under a salt string
BcryptDigest(value, bcryptSalt, fails) ==
  hashBytes(bcryptHash(value, bcryptSalt, fails), bcryptSalt)

BcryptMake(config, value, seed, fails) ==
  BcryptMakeWith(config, SaltBytes(seed, config.saltSize.v),
    BcryptDigest(value,
                 generateBcryptSalt(SaltBytes(seed, config.saltSize.v),
                                    config.version.v, config.rounds.v),
                 fails))

\* verify of a string in the primitive's own format
BcryptVerifyLegacy(hashedValue, plainValue, fails) ==
  IF \E i \in 1..Len(hashedValue.segs) : hashedValue.segs[i].seg # "plain"
    THEN Ret(FALSE)
  ELSE IF bcryptCompare(plainValue, JoinPlain(hashedValue.segs), fails).t = "throw"
    THEN Ret(FALSE)
  ELSE bcryptCompare(plainValue, JoinPlain(hashedValue.segs), fails)

\* verify: the hash derived again from the values in the string
BcryptDerive(phcNode, plainValue, fails) ==
  BcryptDigest(plainValue,
               generateBcryptSalt(phcNode.salt, phcNode.version,
                                  phcNode.parameters.r),
               fails)

\* verify after #validatePhcString: v is what it gave
BcryptVerifyNode(v, plainValue, fails) ==
  IF v.t = "throw" THEN Ret(FALSE)
  ELSE compareOrFalse(BcryptDerive(v.v, plainValue, fails), v.v.hash)

\* the call of safeEqual in verify
BcryptVerifyComparison(hashedValue, v, plainValue, fails) ==
  IF IsLegacy(hashedValue) \/ v.t = "throw" THEN [t |-> "none", v |-> <<>>]
  ELSE comparison(BcryptDerive(v.v, plainValue, fails), v.v.hash)

BcryptVerify(config, hashedValue, plainValue, fails) ==
  IF IsLegacy(hashedValue) THEN BcryptVerifyLegacy(hashedValue, plainValue, fails)
  ELSE BcryptVerifyNode(BcryptValidatePhcString(hashedValue), plainValue, fails)

\* needsReHash after the legacy test: d is what deserialize gave
BcryptNeedsReHashNode(config, d) ==
  LET phcNode == d.v IN
  IF d.t = "throw" THEN d
  ELSE IF phcNode.id # IdBcrypt THEN Ret(TRUE)
  ELSE IF phcNode.version # config.version THEN Ret(TRUE)
  ELSE IF phcNode.parameters.ty = "undefined" THEN Ret(TRUE)
  ELSE IF param(phcNode.parameters, "r") # config.rounds THEN Ret(TRUE)
  ELSE Ret(FALSE)

BcryptNeedsReHash(config, value) ==
  IF IsLegacy(value) THEN Ret(TRUE)
  ELSE BcryptNeedsReHashNode(config, deserialize(value))

(***************************************************************************)
(* The inputs the model draws.                                             *)
(***************************************************************************)
Plaintexts == 1..MaxPlain

Seeds == 1..MaxSeed

Algorithms == {"scrypt", "bcrypt"}

\* partial configurations handed to new Scrypt(config)
ScryptConfigs ==
  { EmptyConfig,
    [blockSize |-> Num(4)],
    [parallelization |-> Num(2)],
    [saltSize |-> Num(32)],
    [keyLength |-> Num(128)],
    [maxMemory |-> Num(64 * 1024 * 1024)],
    [cost |-> Num(32768), maxMemory |-> Num(64 * 1024 * 1024)],
    \* rejected by the constructor
    [cost |-> Num(32768)],
    [cost |-> Num(1)],
    [cost |-> Frac(16384)],
    [blockSize |-> Num(0)],
    [parallelization |-> Num(0)],
    [parallelization |-> Num(134217728)],
    [saltSize |-> Num(7)],
    [saltSize |-> Num(1025)],
    [keyLength |-> Num(63)],
    [keyLength |-> Num(129)] }

\* partial configurations handed to new Bcrypt(config)
BcryptConfigs ==
  { EmptyConfig,
    [rounds |-> Num(4)],
    [saltSize |-> Num(8)],
    [version |-> Num(97)],
    \* rejected by the constructor
    [rounds |-> Num(3)],
    [rounds |-> Num(32)],
    [rounds |-> Frac(10)],
    [saltSize |-> Num(7)],
    [saltSize |-> Num(1025)],
    [version |-> Num(99)] }

Configs(alg) == IF alg = "scrypt" THEN ScryptConfigs ELSE BcryptConfigs

Defaults(alg) == IF alg = "scrypt" THEN ScryptDefaults ELSE BcryptDefaults

\* a scrypt hash string with the given embedded values
ScryptString(n, r, p, salt, hash) ==
  serialize(IdScrypt, Undefined, <<<<"n", n>>, <<"r", r>>, <<"p", p>>>>, salt, hash)

\* a bcrypt hash string with the given embedded values
BcryptString(version, r, salt, hash) ==
  serialize(IdBcrypt, version, <<<<"r", r>>>>, salt, hash)

\* "not a phc string"
NotPhc ==
  TextString(<<110, 111, 116, 32, 97, 32, 112, 104, 99, 32,
               115, 116, 114, 105, 110, 103>>)

\* "$scrypt$n=abc$salt$hash"
NonIntegerParam ==
  PhcString(<<Plain(IdScrypt), ParamsSeg(<< <<"n", <<97, 98, 99>>>> >>),
              Plain(<<115, 97, 108, 116>>), Plain(<<104, 97, 115, 104>>)>>)

\* "$bcrypt$v=x$r=10$<salt>$<hash>"
NonIntegerVersion ==
  PhcString(<<Plain(IdBcrypt), VersionSeg(<<120>>),
              ParamsSeg(<< <<"r", <<49, 48>>>> >>),
              Plain(phcB64Encode(SaltBytes(1, 16))),
              Plain(phcB64Encode(PadTo(<<1>>, 23)))>>)

\* strings that deserialize rejects
Malformed == {NotPhc, NonIntegerParam, NonIntegerVersion}

\* a string in bcrypt's own format, "$2b$10$" and 53 symbols, made from plaintext 1
LegacyHash ==
  LET h == bcryptHash(1, generateBcryptSalt(SaltBytes(1, 16), 98, 10), FALSE).v
  IN PhcString(<<Plain(<<50, 98>>), Plain(<<49, 48>>), Plain(SubSeq(h, 8, Len(h)))>>)

\* a string in bcrypt's own format, "$2a$04$" and 53 symbols, made from plaintext 2
LegacyHashA ==
  LET h == bcryptHash(2, generateBcryptSalt(SaltBytes(1, 16), 97, 4), FALSE).v
  IN PhcString(<<Plain(<<50, 97>>), Plain(<<48, 52>>), Plain(SubSeq(h, 8, Len(h)))>>)

\* strings that deserialize accepts and some driver's validation rejects
Rejected ==
  { \* foreign id
    serialize(IdArgon, Num(19), <<<<"t", 3>>>>, SaltBytes(1, 16), PadTo(<<1>>, 64)),
    \* no parameters
    PhcString(<<Plain(IdScrypt), Plain(phcB64Encode(SaltBytes(1, 16))),
                Plain(phcB64Encode(PadTo(<<1>>, 64)))>>),
    PhcString(<<Plain(IdBcrypt), VersionSeg(FormatInt(98)),
                Plain(phcB64Encode(SaltBytes(1, 16))),
                Plain(phcB64Encode(PadTo(<<1>>, 23)))>>),
    \* a parameter is absent or out of range
    serialize(IdScrypt, Undefined, <<<<"n", 16384>>, <<"r", 8>>>>,
              SaltBytes(1, 16), PadTo(<<1>>, 64)),
    ScryptString(16384, 8, 0, SaltBytes(1, 16), PadTo(<<1>>, 64)),
    ScryptString(0, 8, 1, SaltBytes(1, 16), PadTo(<<1>>, 64)),
    BcryptString(Num(98), 3, SaltBytes(1, 16), PadTo(<<1>>, 23)),
    BcryptString(Num(98), 32, SaltBytes(1, 16), PadTo(<<1>>, 23)),
    BcryptString(Num(99), 10, SaltBytes(1, 16), PadTo(<<1>>, 23)),
    \* salt or hash length out of range
    ScryptString(16384, 8, 1, SaltBytes(1, 16), PadTo(<<1>>, 32)),
    ScryptString(16384, 8, 1, SaltBytes(1, 16), PadTo(<<1>>, 129)),
    ScryptString(16384, 8, 1, SaltBytes(1, 4), PadTo(<<1>>, 64)),
    BcryptString(Num(98), 10, SaltBytes(1, 4), PadTo(<<1>>, 23)),
    BcryptString(Num(98), 10, SaltBytes(1, 16), <<>>) }

\* strings no driver made that pass a driver's validation
Accepted ==
  { ScryptString(1, 8, 1, SaltBytes(1, 16), PadTo(<<1>>, 64)),
    ScryptString(2, 1, 1, SaltBytes(1, 8), PadTo(<<1>>, 128)),
    \* no version segment: read as version 0x61
    serialize(IdBcrypt, Undefined, <<<<"r", 10>>>>, SaltBytes(1, 16), PadTo(<<1>>, 23)),
    BcryptString(Num(97), 31, SaltBytes(1, 8), PadTo(<<1>>, 23)),
    \* bcrypt, a hash of 16 bytes
    BcryptString(Num(98), 10, SaltBytes(1, 16), PadTo(<<1>>, 16)) }

Crafted == Malformed \cup Rejected \cup Accepted \cup {LegacyHash, LegacyHashA}

(***************************************************************************)
(* State.  driver is the driver instance in use (a new one replaces it),   *)
(* stored the hash string kept by the caller with the driver and plaintext *)
(* it was made from, last the call in flight with its result.              *)
(***************************************************************************)
NoDriver == [alg |-> "none"]

NoHash == [has |-> FALSE]

Idle == [op |-> "idle"]

NotRun == [t |-> "none", v |-> <<>>]

Call(op, arg, plain, fails, out) ==
  [op |-> op, arg |-> arg, plain |-> plain, fails |-> fails, out |-> out]

Inputs == Crafted \cup (IF stored.has THEN {stored.hash} ELSE {})

IsValidHash(d, value) ==
  IF d.alg = "scrypt" THEN ScryptIsValidHash(d.config, value)
  ELSE BcryptIsValidHash(d.config, value)

MakeHash(d, value, seed, fails) ==
  IF d.alg = "scrypt" THEN ScryptMake(d.config, value, seed, fails)
  ELSE BcryptMake(d.config, value, seed, fails)

VerifyHash(d, hashedValue, plainValue, fails) ==
  IF d.alg = "scrypt" THEN ScryptVerify(d.config, hashedValue, plainValue, fails)
  ELSE BcryptVerify(d.config, hashedValue, plainValue, fails)

\* the call of safeEqual that verify makes
VerifyComparison(d, hashedValue, plainValue, fails) ==
  IF d.alg = "scrypt"
  THEN ScryptVerifyComparison(d.config, ScryptValidatePhcString(hashedValue),
                              plainValue, fails)
  ELSE BcryptVerifyComparison(hashedValue, BcryptValidatePhcString(hashedValue),
                              plainValue, fails)

NeedsReHash(d, value) ==
  IF d.alg = "scrypt" THEN ScryptNeedsReHash(d.config, value)
  ELSE BcryptNeedsReHash(d.config, value)

ValidateConfig(alg, config) ==
  IF alg = "scrypt" THEN ScryptValidateConfig(config)
  ELSE BcryptValidateConfig(config)

\* #importBinding where a second import that completes clears the field
importBindingClears(d) ==
  IF d.alg = "bcrypt" THEN [d EXCEPT !.binding = ~d.binding] ELSE d

\* #importBinding: the binding is loaded by the first make or verify of a Bcrypt
importBinding(d) ==
  IF d.alg = "bcrypt" THEN [d EXCEPT !.binding = TRUE] ELSE d

\* the callers of SpecConcurrent
Callers == 1..MaxCallers

\* a caller with no call in flight
NoCall == [stage |-> "idle"]

InitDriver ==
  /\ driver = NoDriver
  /\ stored = NoHash
  /\ last = Idle
  /\ calls = [c \in Callers |-> NoCall]

\* new Scrypt(config) / new Bcrypt(config)
Construct ==
  \E alg \in Algorithms : \E config \in Configs(alg) :
    LET merged == Merge(Defaults(alg), config)
        ok     == ValidateConfig(alg, merged)
    IN
    /\ last = Idle
    /\ driver' = IF ok THEN [alg |-> alg, config |-> merged, binding |-> FALSE]
                 ELSE driver
    /\ last' = Call("new", [alg |-> alg, config |-> merged], 0, FALSE,
                    IF ok THEN Ret(TRUE) ELSE Throw("TypeError"))
    /\ UNCHANGED stored

Make ==
  \E value \in Plaintexts : \E seed \in Seeds : \E fails \in BOOLEAN :
    /\ last = Idle
    /\ driver.alg # "none"
    /\ \E out \in {MakeHash(driver, value, seed, fails)} :
         /\ driver' = importBinding(driver)
         /\ stored' = IF out.t = "ret"
                      THEN [has |-> TRUE, hash |-> out.v, alg |-> driver.alg,
                            config |-> driver.config, plain |-> value]
                      ELSE stored
         /\ last' = Call("make", seed, value, fails, out)

Verify ==
  \E hashedValue \in Inputs : \E plainValue \in Plaintexts : \E fails \in BOOLEAN :
    /\ last = Idle
    /\ driver.alg # "none"
    /\ driver' = importBinding(driver)
    /\ last' = Call("verify", hashedValue, plainValue, fails,
                    VerifyHash(driver, hashedValue, plainValue, fails))
    /\ UNCHANGED stored

CheckNeedsReHash ==
  \E value \in Inputs :
    /\ last = Idle
    /\ driver.alg # "none"
    /\ last' = Call("needsReHash", value, 0, FALSE, NeedsReHash(driver, value))
    /\ UNCHANGED <<driver, stored>>

CheckIsValidHash ==
  \E value \in Inputs :
    /\ last = Idle
    /\ driver.alg # "none"
    /\ last' = Call("isValidHash", value, 0, FALSE, IsValidHash(driver, value))
    /\ UNCHANGED <<driver, stored>>

\* the caller takes the result of the call
Settle ==
  /\ last # Idle
  /\ last' = Idle
  /\ UNCHANGED <<driver, stored>>

NextDriver ==
  \/ Construct
  \/ Make
  \/ Verify
  \/ CheckNeedsReHash
  \/ CheckIsValidHash
  \/ Settle

Init ==
  /\ InitDriver
  /\ buff = <<>>
  /\ encoded = Undefined
  /\ decoded = NotRun

Next == NextDriver /\ UNCHANGED <<codecVars, calls>>

Spec == Init /\ [][Next]_vars

(***************************************************************************)
(* hash.ts: the Hash facade over one driver.                               *)
(***************************************************************************)
\* assertEquals with the test of assertNotEquals
HashAssertEqualsInverted(isEqual) ==
  IF isEqual.t = "throw" THEN isEqual
  ELSE IF isEqual.v THEN Throw("AssertionError")
  ELSE Ret(Undefined)

\* assertEquals after the await: isEqual is what the driver's verify gave
HashAssertEquals(isEqual) ==
  IF isEqual.t = "throw" THEN isEqual
  ELSE IF ~isEqual.v THEN Throw("AssertionError")
  ELSE Ret(Undefined)

\* assertNotEquals after the await
HashAssertNotEquals(isEqual) ==
  IF isEqual.t = "throw" THEN isEqual
  ELSE IF isEqual.v THEN Throw("AssertionError")
  ELSE Ret(Undefined)

\* the hash strings the assertions are called with
FacadeInputs ==
  Malformed \cup Accepted \cup {LegacyHash}
    \cup (IF stored.has THEN {stored.hash} ELSE {})

\* hash.assertEquals(hashedValue, plainValue)
AssertEquals ==
  \E hashedValue \in FacadeInputs : \E plainValue \in Plaintexts : \E fails \in BOOLEAN :
    /\ last = Idle
    /\ driver.alg # "none"
    /\ driver' = importBinding(driver)
    /\ last' = Call("assertEquals", hashedValue, plainValue, fails,
                    HashAssertEquals(VerifyHash(driver, hashedValue, plainValue, fails)))
    /\ UNCHANGED stored

\* hash.assertNotEquals(hashedValue, plainValue)
AssertNotEquals ==
  \E hashedValue \in FacadeInputs : \E plainValue \in Plaintexts : \E fails \in BOOLEAN :
    /\ last = Idle
    /\ driver.alg # "none"
    /\ driver' = importBinding(driver)
    /\ last' = Call("assertNotEquals", hashedValue, plainValue, fails,
                    HashAssertNotEquals(VerifyHash(driver, hashedValue, plainValue, fails)))
    /\ UNCHANGED stored

\* a Hash over a driver: the driver is constructed, hashes are made through
\* the facade (make delegates to the driver) and asserted on
NextFacade ==
  \/ Construct
  \/ Make
  \/ AssertEquals
  \/ AssertNotEquals
  \/ Settle

SpecFacade == Init /\ [][NextFacade /\ UNCHANGED <<codecVars, calls>>]_vars

(***************************************************************************)
(* Several callers on one driver.  A call of make or verify is suspended   *)
(* at its awaits: a Bcrypt call first awaits #importBinding, which returns *)
(* the field when it is set and otherwise awaits the import and writes the *)
(* field; every call then awaits the primitive.  isValidHash and           *)
(* needsReHash run to their end without an await.                          *)
(***************************************************************************)
\* the driver instances the callers share: new Scrypt(), new Bcrypt()
SharedDrivers ==
  {[alg |-> alg, config |-> Merge(Defaults(alg), EmptyConfig), binding |-> FALSE] :
     alg \in Algorithms}

\* the hash string the driver made before the callers came: stored
OwnHash == stored.hash

\* the strings isValidHash and needsReHash are called with
SharedInputs == {OwnHash, NotPhc}

\* what the call gives on driver d
Outcome(d, call) ==
  IF call.op = "make" THEN MakeHash(d, call.plain, call.seed, call.fails)
  ELSE IF call.op = "verify" THEN VerifyHash(d, call.arg, call.plain, call.fails)
  ELSE IF call.op = "needsReHash" THEN NeedsReHash(d, call.arg)
  ELSE IsValidHash(d, call.arg)

\* a call in flight: at is the driver as it was when the call began
Pending(stage, op, arg, plain, seed, fails, at, out) ==
  [stage |-> stage, op |-> op, arg |-> arg, plain |-> plain, seed |-> seed,
   fails |-> fails, at |-> at, out |-> out]

\* the stage make or verify reaches at its first await
FirstAwait(d) ==
  IF d.alg = "bcrypt" /\ ~d.binding THEN "importing" ELSE "awaiting"

\* a caller calls make
BeginMake(c) ==
  \E value \in Plaintexts :
    /\ calls[c].stage = "idle"
    /\ calls' = [calls EXCEPT ![c] =
         Pending(FirstAwait(driver), "make", NotPhc, value, 1, FALSE,
                 driver, NotRun)]
    /\ UNCHANGED driver

\* a caller calls verify
BeginVerify(c) ==
  \E plainValue \in Plaintexts :
    /\ calls[c].stage = "idle"
    /\ calls' = [calls EXCEPT ![c] =
         Pending(FirstAwait(driver), "verify", OwnHash, plainValue, 0,
                 FALSE, driver, NotRun)]
    /\ UNCHANGED driver

\* a caller calls isValidHash or needsReHash, which run to their end
RunSync(c) ==
  \E op \in {"isValidHash", "needsReHash"} : \E value \in SharedInputs :
    /\ calls[c].stage = "idle"
    /\ \E call \in {Pending("done", op, value, 0, 0, FALSE, driver, NotRun)} :
         calls' = [calls EXCEPT ![c] = [call EXCEPT !.out = Outcome(driver, call)]]
    /\ UNCHANGED driver

\* the import a call awaits completes: this.#binding = await import('bcrypt')
Imported(c) ==
  /\ calls[c].stage = "importing"
  /\ driver' = importBinding(driver)
  /\ calls' = [calls EXCEPT ![c].stage = "awaiting"]

\* the primitive a call awaits completes and the call runs to its end, on the
\* fields of the driver as they are now
Resolve(c) ==
  /\ calls[c].stage = "awaiting"
  /\ calls' = [calls EXCEPT ![c].stage = "done",
                            ![c].out = Outcome(driver, calls[c])]
  /\ UNCHANGED driver

\* the caller takes the result
Return(c) ==
  /\ calls[c].stage = "done"
  /\ calls' = [calls EXCEPT ![c] = NoCall]
  /\ UNCHANGED driver

InitConcurrent ==
  /\ driver \in SharedDrivers
  /\ stored = [has |-> TRUE, hash |-> MakeHash(driver, 1, 1, FALSE).v,
               alg |-> driver.alg, config |-> driver.config, plain |-> 1]
  /\ last = Idle
  /\ calls = [c \in Callers |-> NoCall]
  /\ buff = <<>>
  /\ encoded = Undefined
  /\ decoded = NotRun

NextConcurrent ==
  \E c \in Callers :
    \/ BeginMake(c)
    \/ BeginVerify(c)
    \/ RunSync(c)
    \/ Imported(c)
    \/ Resolve(c)
    \/ Return(c)

SpecConcurrent ==
  InitConcurrent /\ [][NextConcurrent /\ UNCHANGED <<stored, last, codecVars>>]_vars

(***************************************************************************)
(* The codec on its own: encode a byte sequence, decode the result.        *)
(***************************************************************************)
ByteVals == {0, 1, 127, 128, 255}

RECURSIVE SeqsUpTo(_, _)
SeqsUpTo(S, n) ==
  IF n = 0 THEN {<<>>}
  ELSE LET shorter == SeqsUpTo(S, n - 1) IN
       shorter \cup {Append(q, x) : q \in {r \in shorter : Len(r) = n - 1}, x \in S}

\* the lengths of a bcrypt salt and digest, and the longest inputs of the codec
LongLengths == {16, 23, 71, 72}

CodecInputs ==
  (SeqsUpTo(ByteVals, MaxLen) \ {<<>>})
    \cup {SaltBytes(seed, n) : seed \in Seeds, n \in LongLengths}

InitCodec ==
  /\ InitDriver
  /\ buff \in CodecInputs
  /\ encoded = Undefined
  /\ decoded = NotRun

Encode ==
  /\ encoded.ty = "undefined"
  /\ encoded' = [ty |-> "string", s |-> encode(buff)]
  /\ UNCHANGED <<buff, decoded>>

Decode ==
  /\ encoded.ty = "string"
  /\ decoded.t = "none"
  /\ decoded' = decode(encoded.s)
  /\ UNCHANGED <<buff, encoded>>

NextCodec == (Encode \/ Decode) /\ UNCHANGED <<driverVars, calls>>

SpecCodec == InitCodec /\ [][NextCodec]_vars

(***************************************************************************)
(* decode run on arbitrary text.                                           *)
(***************************************************************************)
\* '.', '9', 'A', 'z' of the alphabet; '!', '=', a code point past the table
\* and NUL outside it
TextSymbols == {46, 57, 65, 122, 33, 61, 200, 0}

\* the strings decode is called with
DecodeInputs == SeqsUpTo(TextSymbols, MaxText)

InitDecode ==
  /\ InitDriver
  /\ buff = <<>>
  /\ encoded \in {[ty |-> "string", s |-> text] : text \in DecodeInputs}
  /\ decoded = NotRun

NextDecode == Decode /\ UNCHANGED <<driverVars, calls>>

SpecDecode == InitDecode /\ [][NextDecode]_vars

(***************************************************************************)
(* safeEqual run on pairs of strings.                                      *)
(***************************************************************************)
\* NUL, 'a', 'e' with acute accent (two bytes), the euro sign (three bytes)
CharVals == {0, 97, 233, 8364}

\* the strings safeEqual is called with
CompareInputs == SeqsUpTo(CharVals, MaxStr)

\* safeEqual(trustedValue, userInput) on two strings
SafeEqual ==
  /\ last = Idle
  /\ \E trustedValue \in CompareInputs : \E userInput \in CompareInputs :
       last' = Call("safeEqual", trustedValue, userInput, FALSE,
                    safeEqualStrings(trustedValue, userInput))
  /\ UNCHANGED <<driver, stored>>

NextCompare == SafeEqual \/ Settle

SpecCompare == Init /\ [][NextCompare /\ UNCHANGED <<codecVars, calls>>]_vars

(***************************************************************************)
(* Properties of the drivers, checked under Spec.                          *)
(***************************************************************************)
\* the call in flight is op on the stored hash
OnStored(op) == last.op = op /\ stored.has /\ last.arg = stored.hash

\* the driver in use has the algorithm and configuration that made the stored hash
SameDriver == stored.alg = driver.alg /\ stored.config = driver.config

\* the call in flight is one of ops
OnString(ops) == last.op \in ops

\* the call in flight returned b
Returns(b) == last.out.t = "ret" /\ last.out.v = b

\* the call in flight threw e
Throws(e) == last.out.t = "throw" /\ last.out.v = e

\* C1: with a primitive that does not fail, make completes, and verify of the
\* hash a driver made returns true for the plaintext it was made from and false
\* for any other plaintext, on that driver, under every accepted configuration
C1_VerifyIffSamePlaintext ==
  /\ (last.op = "make" /\ ~last.fails) => last.out.t = "ret"
  /\ (OnStored("verify") /\ SameDriver /\ ~last.fails)
       => Returns(last.plain = stored.plain)

C1_Witness ==
  /\ OnStored("verify") /\ SameDriver /\ ~last.fails
  /\ driver.alg = "bcrypt"
  /\ driver.config.saltSize = Num(8)
  /\ last.plain # stored.plain
  /\ Returns(FALSE)

\* C2: on a string deserialize rejects (strings in bcrypt's own format aside),
\* isValidHash returns false, verify returns false and needsReHash returns true
C2_MalformedFailsClosed ==
  (/\ OnString({"isValidHash", "verify", "needsReHash"})
   /\ ~IsLegacy(last.arg)
   /\ deserialize(last.arg).t = "throw")
    => Returns(last.op = "needsReHash")

\* the two configurations differ in a value make embeds in the hash string
EmbeddedDiffer(alg, old, new) ==
  IF alg = "scrypt"
  THEN \/ old.cost # new.cost
       \/ old.blockSize # new.blockSize
       \/ old.parallelization # new.parallelization
  ELSE \/ old.rounds # new.rounds
       \/ old.version # new.version

\* C3 as stated: needsReHash returns true for a hash made under a configuration
\* of the same driver that differs in any field from the one in use
C3_AnyChangeNeedsReHash ==
  (/\ OnStored("needsReHash")
   /\ stored.alg = driver.alg
   /\ stored.config # driver.config)
    => Returns(TRUE)

\* C3 amended: needsReHash of a hash made by a driver of the same algorithm
\* returns true exactly when the two configurations differ in cost, blockSize or
\* parallelization (scrypt), in rounds or version (bcrypt)
C3_EmbeddedChangeNeedsReHash ==
  (OnStored("needsReHash") /\ stored.alg = driver.alg)
    => Returns(EmbeddedDiffer(driver.alg, stored.config, driver.config))

C3_Witness ==
  /\ OnStored("needsReHash")
  /\ stored.alg = "scrypt" /\ driver.alg = "scrypt"
  /\ stored.config.parallelization # driver.config.parallelization
  /\ Returns(TRUE)

\* C4: with a primitive whose environment does not fail, a hash made under any
\* accepted configuration verifies for its plaintext on a driver of the same
\* algorithm under any other accepted configuration
C4_VerifyIgnoresCurrentConfig ==
  (/\ OnStored("verify")
   /\ stored.alg = driver.alg
   /\ ~last.fails
   /\ last.plain = stored.plain)
    => Returns(TRUE)

\* C5: a failure of the primitive during make, or during verify of a string the
\* driver's validation accepts, reaches the caller as that error
C5_PrimitiveFailurePropagates ==
  (/\ OnString({"make", "verify"})
   /\ last.fails
   /\ last.op = "verify" => IsValidHash(driver, last.arg) = Ret(TRUE))
    => Throws("PrimitiveError")

\* C6: on a string that deserialize accepts and the driver's isValidHash
\* rejects, verify returns false and needsReHash returns true
C6_RejectedFailsClosed ==
  (/\ OnString({"verify", "needsReHash"})
   /\ ~IsLegacy(last.arg)
   /\ deserialize(last.arg).t = "ret"
   /\ IsValidHash(driver, last.arg) = Ret(FALSE))
    => Returns(last.op = "needsReHash")

\* the id of a driver's hash strings
IdOf(alg) == IF alg = "scrypt" THEN IdScrypt ELSE IdBcrypt

\* the record is one the validation of the driver lets through
PassesChecks(alg, node) ==
  /\ node.id = IdOf(alg)
  /\ node.parameters.ty = "object"
  /\ Len(node.salt.b) \in 8..1024
  /\ IF alg = "scrypt"
     THEN /\ Len(node.hash.b) \in 64..128
          /\ {"n", "r", "p"} \subseteq DOMAIN node.parameters.kv
          /\ node.parameters.kv["n"] >= 1
          /\ node.parameters.kv["r"] >= 1
          /\ node.parameters.kv["p"] >= 1
          /\ node.parameters.kv["p"] * node.parameters.kv["r"]
               <= maxUint32Times32Div128
     ELSE /\ Len(node.hash.b) > 0
          /\ "r" \in DOMAIN node.parameters.kv
          /\ node.parameters.kv["r"] \in 4..31
          /\ node.version \in {Undefined, Num(0), Num(97), Num(98)}

\* C7: isValidHash returns a boolean; it returns true for a hash made by the
\* driver in use, and returns true only for a string that decodes to a record
\* with the driver's id whose parameters and lengths pass the driver's checks
C7_IsValidHash ==
  /\ last.op = "isValidHash" => last.out.t = "ret"
  /\ (OnStored("isValidHash") /\ SameDriver) => Returns(TRUE)
  /\ (last.op = "isValidHash" /\ Returns(TRUE))
       => /\ deserialize(last.arg).t = "ret"
          /\ PassesChecks(driver.alg, deserialize(last.arg).v)

C7_Witness ==
  /\ OnStored("isValidHash") /\ SameDriver
  /\ driver.alg = "scrypt"
  /\ driver.config.keyLength = Num(128)
  /\ Returns(TRUE)

\* C8: needsReHash returns false for a hash made by a driver with the
\* configuration of the driver in use
C8_FreshHashNeedsNoReHash ==
  (OnStored("needsReHash") /\ SameDriver) => Returns(FALSE)

C8_Witness ==
  /\ OnStored("needsReHash") /\ SameDriver
  /\ driver.alg = "scrypt"
  /\ driver.config.cost = Num(32768)
  /\ Returns(FALSE)

\* the ranges of the configuration fields as the specification lists them
ConfigInRange(alg, c) ==
  IF alg = "scrypt"
  THEN /\ \A f \in DOMAIN c : c[f].ty = "int"
       /\ c.cost.v >= 2
       /\ c.blockSize.v >= 1
       /\ c.parallelization.v >= 1
       /\ c.parallelization.v * c.blockSize.v <= maxUint32Times32Div128
       /\ c.saltSize.v \in 8..1024
       /\ c.keyLength.v \in 64..128
       /\ c.maxMemory.v > 128 * c.cost.v * c.blockSize.v
  ELSE /\ \A f \in DOMAIN c : c[f].ty = "int"
       /\ c.rounds.v \in 4..31
       /\ c.saltSize.v \in 8..1024
       /\ c.version.v \in {97, 98}

\* the same ranges on the values embedded in a decoded record
EmbeddedInRange(alg, node) ==
  IF alg = "scrypt"
  THEN /\ node.parameters.kv["n"] >= 2
       /\ node.parameters.kv["r"] >= 1
       /\ node.parameters.kv["p"] >= 1
       /\ node.parameters.kv["p"] * node.parameters.kv["r"]
            <= maxUint32Times32Div128
       /\ Len(node.salt.b) \in 8..1024
       /\ Len(node.hash.b) \in 64..128
  ELSE /\ node.parameters.kv["r"] \in 4..31
       /\ Len(node.salt.b) \in 8..1024
       /\ node.version \in {Undefined, Num(97), Num(98)}

\* the record has the driver's id, every parameter the driver reads and,
\* for bcrypt, a hash that is not empty
HasDriverShape(alg, node) ==
  /\ node.id = IdOf(alg)
  /\ node.parameters.ty = "object"
  /\ IF alg = "scrypt" THEN {"n", "r", "p"} \subseteq DOMAIN node.parameters.kv
     ELSE "r" \in DOMAIN node.parameters.kv /\ Len(node.hash.b) > 0

\* C9: the constructor throws exactly when a merged field is out of its range,
\* and isValidHash returns false exactly when an embedded value is out of the
\* same range
C9_SameRangesAtBothTimes ==
  /\ last.op = "new"
       => (last.out.t = "throw" <=> ~ConfigInRange(last.arg.alg, last.arg.config))
  /\ (/\ last.op = "isValidHash"
      /\ deserialize(last.arg).t = "ret"
      /\ HasDriverShape(driver.alg, deserialize(last.arg).v))
       => (Returns(FALSE)
             <=> ~EmbeddedInRange(driver.alg, deserialize(last.arg).v))

\* the string starts with "$2a" or "$2b"
HasLegacyTag(value) ==
  /\ value.k = "phc"
  /\ Len(value.segs) > 0
  /\ value.segs[1].seg = "plain"
  /\ Len(value.segs[1].cs) >= 2
  /\ value.segs[1].cs[1] = 50
  /\ value.segs[1].cs[2] \in {97, 98}

\* C12: on a string starting with "$2a" or "$2b", Bcrypt.verify returns what
\* the primitive's compare returns for the plaintext and the string, true for
\* the plaintext the string was made from, and Bcrypt.needsReHash returns true
\* under every configuration
C12_LegacyBypassesPhc ==
  /\ (/\ last.op = "verify"
      /\ driver.alg = "bcrypt"
      /\ HasLegacyTag(last.arg)
      /\ ~last.fails)
       => /\ last.out = bcryptCompare(last.plain, JoinPlain(last.arg.segs), FALSE)
          /\ (last.arg = LegacyHash /\ last.plain = 1) => Returns(TRUE)
          /\ (last.arg = LegacyHashA /\ last.plain = 2) => Returns(TRUE)
  /\ (/\ last.op = "needsReHash"
      /\ driver.alg = "bcrypt"
      /\ HasLegacyTag(last.arg))
       => Returns(TRUE)

C12_Witness ==
  /\ last.op = "verify"
  /\ driver.alg = "bcrypt"
  /\ driver.config.rounds = Num(4)
  /\ last.arg = LegacyHashA
  /\ last.plain = 2
  /\ ~last.fails
  /\ Returns(TRUE)

\* C17: in every verify of a string the driver's validation accepts, the
\* hash derived again and the hash in the string have the same length: the
\* call of safeEqual returns and does not throw
C17_ComparedLengthsAgree ==
  (last.op = "verify" /\ IsValidHash(driver, last.arg) = Ret(TRUE))
    => VerifyComparison(driver, last.arg, last.plain, last.fails).t # "throw"

(***************************************************************************)
(* Properties of the facade, checked under SpecFacade.                     *)
(***************************************************************************)
\* C13: assertEquals throws AssertionError exactly when the driver's verify of
\* the same arguments returns false and otherwise returns; assertNotEquals
\* throws AssertionError exactly when it returns true and otherwise returns
C13_AssertionsWrapVerify ==
  /\ last.op = "assertEquals"
       => /\ Throws("AssertionError")
               <=> VerifyHash(driver, last.arg, last.plain, last.fails) = Ret(FALSE)
          /\ ~Throws("AssertionError") => last.out.t = "ret"
  /\ last.op = "assertNotEquals"
       => /\ Throws("AssertionError")
               <=> VerifyHash(driver, last.arg, last.plain, last.fails) = Ret(TRUE)
          /\ ~Throws("AssertionError") => last.out.t = "ret"

C13_Witness ==
  /\ OnStored("assertNotEquals") /\ SameDriver /\ ~last.fails
  /\ last.plain = stored.plain
  /\ Throws("AssertionError")

(***************************************************************************)
(* Properties of concurrent calls, checked under SpecConcurrent.           *)
(***************************************************************************)
\* every call that has ended gave what it gives on the driver as it was when
\* the call began, with no other call in flight
EndedAsAlone ==
  \A c \in Callers :
    calls[c].stage = "done" => calls[c].out = Outcome(calls[c].at, calls[c])

\* a step leaves the configuration as it is and leaves a binding that is set
ConfigAndBindingKept ==
  /\ driver'.alg = driver.alg
  /\ driver'.config = driver.config
  /\ driver.binding => driver'.binding

\* C14: under every interleaving of calls on one driver each call returns what
\* it returns when run alone, the configuration is never written, and the
\* binding stays set once it is set
C14_ConcurrentCallsAreIndependent ==
  []EndedAsAlone /\ [][ConfigAndBindingKept]_vars

C14_Witness ==
  /\ driver.alg = "bcrypt"
  /\ driver.binding
  /\ calls[1].stage = "done" /\ calls[1].op = "verify"
  /\ calls[1].out = Ret(TRUE)
  /\ calls[2].stage = "importing" /\ calls[2].op = "make"

(***************************************************************************)
(* Properties of the codec, checked under SpecCodec.                       *)
(***************************************************************************)
\* C10: decode(encode(B)) is B, for every byte sequence B the codec was run on
C10_RoundTrip == decoded.t # "none" => (decoded.t = "ret" /\ decoded.v = buff)

C10_Witness ==
  /\ (decoded.t = "ret" /\ decoded.v = buff)
  /\ Len(buff) = 71
  /\ \E i \in 1..Len(buff) : buff[i] >= 128

(***************************************************************************)
(* Properties of decode on arbitrary text, checked under SpecDecode.       *)
(***************************************************************************)
\* the symbol is one of ./A-Za-z0-9
InAlphabet(code) == code # 0 /\ indexOf(code) # -1

\* the longest prefix of the string made of symbols of the alphabet
ValidPrefix(string) ==
  SubSeq(string, 1,
         CHOOSE n \in 0..Len(string) :
           /\ \A i \in 1..n : InAlphabet(string[i])
           /\ n < Len(string) => ~InAlphabet(string[n + 1]))

\* C11: decode never raises an error, and on a string with a symbol outside
\* the alphabet it returns the bytes it returns on the prefix up to that symbol
C11_DecodeIsLenient ==
  decoded.t # "none"
    => /\ decoded.t = "ret"
       /\ decoded.v = decode(ValidPrefix(encoded.s)).v

(***************************************************************************)
(* Properties of safeEqual on strings, checked under SpecCompare.          *)
(***************************************************************************)
\* p is a proper prefix of s
IsProperPrefix(p, s) == Len(p) < Len(s) /\ SubSeq(s, 1, Len(p)) = p

\* C15: safeEqual on two strings returns, never throws, and returns true
\* exactly when the two have the same bytes (so the same byte length); it
\* returns false when one is a proper prefix of the other
C15_SafeEqualOnStrings ==
  last.op = "safeEqual"
    => /\ last.out.t = "ret"
       /\ last.out.v = (utf8(last.arg) = utf8(last.plain))
       /\ (IsProperPrefix(last.plain, last.arg) \/ IsProperPrefix(last.arg, last.plain))
            => Returns(FALSE)

C15_Witness ==
  /\ last.op = "safeEqual"
  /\ IsProperPrefix(last.arg, last.plain)
  /\ Len(last.arg) > 0
  /\ stringBuffers(last.arg, last.plain)[1] = stringBuffers(last.arg, last.plain)[2]
  /\ Returns(FALSE)

====
